---- MODULE Spec2Model ----
(***************************************************************************)
(* examples/simple-mcp-server.py: a FastAPI application with six           *)
(* endpoints.  The state is what the process holds after line 13 and the   *)
(* decorators have run (the route table), the two literals the handlers    *)
(* return from (the fact list and the tool catalog), the host's clock and  *)
(* UTC offset, and the requests in flight.  A request is received and      *)
(* routed, then served by its endpoint (body decoding, the handler and the *)
(* encoding of its result are one step: the handlers never await), then    *)
(* delivered.                                                              *)
(***************************************************************************)
EXTENDS Integers, Sequences, FiniteSets, TLC

VARIABLES clock, tz, startTime, routes, facts, tools, reqs

vars == <<clock, tz, startTime, routes, facts, tools, reqs>>

(* ------------------------------ bounds -------------------------------- *)

\* Requests in flight at once.
NumReqs == 2

\* The clock runs from 0 to MaxClock seconds.
MaxClock == 1

\* The longest the process can be held up between two clock reads of one
\* handler, in seconds.
MaxReadGap == 1

ReqIds == 1..NumReqs

\* UTC offsets of the host, in seconds (datetime.now() reads local time).
TzOffsets == {0, 3600}

(* --------------------------- the literals ----------------------------- *)

\* facts, lines 26-32.
FACTS ==
    << "The MCP protocol was designed to standardize AI tool integration",
       "Octopuses have three hearts and blue blood",
       "Honey never spoils - archaeologists have found edible honey in Egyptian tombs",
       "A group of flamingos is called a 'flamboyance'",
       "The shortest war in history lasted only 38-45 minutes" >>

\* A catalog whose first url is misspelt.
TOOLS_Typo ==
    << [name |-> "get_random_fact",
        description |-> "Get a random interesting fact",
        url |-> "/random_fact",
        method |-> "GET"],
       [name |-> "get_current_time",
        description |-> "Get the current time",
        url |-> "/time",
        method |-> "GET"],
       [name |-> "health_check",
        description |-> "Check server health status",
        url |-> "/health",
        method |-> "GET"] >>

\* The "tools" list of mcp_endpoint, lines 58-77.
TOOLS ==
    << [name |-> "get_random_fact",
        description |-> "Get a random interesting fact",
        url |-> "/random-fact",
        method |-> "GET"],
       [name |-> "get_current_time",
        description |-> "Get the current time",
        url |-> "/time",
        method |-> "GET"],
       [name |-> "health_check",
        description |-> "Check server health status",
        url |-> "/health",
        method |-> "GET"] >>

\* "server_info" of mcp_endpoint, lines 78-82.
SERVER_INFO ==
    [name |-> "Simple MCP Server",
     version |-> "1.0.0",
     description |-> "A simple MCP server for testing"]

(* ------------------------------ routing ------------------------------- *)

\* A path is the sequence of its segments: "/" is <<>>, "/health" is
\* <<"health">>, "/health/" is <<"health", "">>.
RECURSIVE PathString(_)
PathString(segs) ==
    IF segs = <<>> THEN ""
    ELSE "/" \o Head(segs) \o PathString(Tail(segs))

\* The path as it reaches the router: the root is "/".
RoutePath(segs) == IF segs = <<>> THEN "/" ELSE PathString(segs)

\* FastAPI(...) at line 13 registers the documentation routes (add_route:
\* GET and HEAD); each decorator appends an APIRoute with the one method.
DocRoutes ==
    << [path |-> "/openapi.json", methods |-> {"GET", "HEAD"}, endpoint |-> "openapi"],
       [path |-> "/docs", methods |-> {"GET", "HEAD"}, endpoint |-> "swagger_ui_html"],
       [path |-> "/docs/oauth2-redirect", methods |-> {"GET", "HEAD"}, endpoint |-> "swagger_ui_redirect"],
       [path |-> "/redoc", methods |-> {"GET", "HEAD"}, endpoint |-> "redoc_html"] >>

AppRoutes ==
    << [path |-> "/", methods |-> {"GET"}, endpoint |-> "root"],
       [path |-> "/health", methods |-> {"GET"}, endpoint |-> "health"],
       [path |-> "/random-fact", methods |-> {"GET"}, endpoint |-> "get_random_fact"],
       [path |-> "/time", methods |-> {"GET"}, endpoint |-> "get_current_time"],
       [path |-> "/echo", methods |-> {"POST"}, endpoint |-> "echo_message"],
       [path |-> "/mcp", methods |-> {"POST"}, endpoint |-> "mcp_endpoint"] >>

\* A match that does not look at the method.
matches_AnyMethod(route, method, path) ==
    IF route.path # path THEN "NONE" ELSE "FULL"

\* Route.matches: the path decides NONE, the method FULL or PARTIAL.
matches(route, method, path) ==
    IF route.path # path THEN "NONE"
    ELSE IF method \in route.methods THEN "FULL"
    ELSE "PARTIAL"

\* rstrip("/") of a path, and the path with "/" appended.
RECURSIVE rstrip(_)
rstrip(segs) ==
    IF segs # <<>> /\ segs[Len(segs)] = "" THEN rstrip(SubSeq(segs, 1, Len(segs) - 1))
    ELSE segs

ToggleSlash(segs) ==
    IF segs[Len(segs)] = "" THEN rstrip(segs) ELSE Append(segs, "")

FirstMatch(table, method, path, kind) ==
    LET hits == {i \in 1..Len(table) : matches(table[i], method, path) = kind}
    IN  IF hits = {} THEN 0 ELSE CHOOSE i \in hits : \A j \in hits : i <= j

\* Router.app: the first full match is dispatched; failing that the first
\* partial match answers 405; failing that a path that matches with its
\* trailing slash toggled is redirected; the rest is not found.
Router(table, method, segs) ==
    LET path == RoutePath(segs)
        full == FirstMatch(table, method, path, "FULL")
        part == FirstMatch(table, method, path, "PARTIAL")
        other == RoutePath(ToggleSlash(segs))
    IN  IF full # 0 THEN [status |-> 0, endpoint |-> table[full].endpoint]
        ELSE IF part # 0 THEN [status |-> 405, endpoint |-> "none"]
        ELSE IF /\ path # "/"
                /\ \E i \in 1..Len(table) : matches(table[i], method, other) # "NONE"
             THEN [status |-> 307, endpoint |-> "none"]
        ELSE [status |-> 404, endpoint |-> "none"]

(* -------------------------------- JSON -------------------------------- *)

\* A JSON text, as the client writes it and reads it back, is a tree
\* [t, s, kids]: t the kind, s the lexeme of a scalar, kids the members as
\* <<key, value>> pairs (the key is "" in an array).  A body can also be
\* empty or fail to be JSON at all.
JNull == [t |-> "null", s |-> "null", kids |-> <<>>]
JTrue == [t |-> "true", s |-> "true", kids |-> <<>>]
JNum(lexeme) == [t |-> "number", s |-> lexeme, kids |-> <<>>]
JStr(chars) == [t |-> "string", s |-> chars, kids |-> <<>>]
JArr(items) == [t |-> "array", s |-> "", kids |-> [i \in 1..Len(items) |-> <<"", items[i]>>]]
JObj(members) == [t |-> "object", s |-> "", kids |-> members]

EmptyBody == [t |-> "empty", s |-> "", kids |-> <<>>]
MalformedBody == [t |-> "malformed", s |-> "{'a': 1", kids |-> <<>>]

\* The number lexemes of the bodies below.  int() keeps the digits; float()
\* rounds to a double, and a lexeme beyond the double range becomes inf.
IntLexemes == {"1", "42"}

float(lexeme) == IF lexeme = "1e999" THEN "inf" ELSE lexeme

\* json.loads: a JSON text to the Python value it denotes.
RECURSIVE json_loads(_)
json_loads(j) ==
    CASE j.t = "null" -> [t |-> "None", s |-> "None", kids |-> <<>>]
      [] j.t = "true" -> [t |-> "bool", s |-> "True", kids |-> <<>>]
      [] j.t = "number" ->
            IF j.s \in IntLexemes THEN [t |-> "int", s |-> j.s, kids |-> <<>>]
            ELSE [t |-> "float", s |-> float(j.s), kids |-> <<>>]
      [] j.t = "string" -> [t |-> "str", s |-> j.s, kids |-> <<>>]
      [] j.t = "array" ->
            [t |-> "list", s |-> "",
             kids |-> [i \in 1..Len(j.kids) |-> <<"", json_loads(j.kids[i][2])>>]]
      [] j.t = "object" ->
            [t |-> "dict", s |-> "",
             kids |-> [i \in 1..Len(j.kids) |-> <<j.kids[i][1], json_loads(j.kids[i][2])>>]]

\* json.dumps(..., allow_nan=False) raises ValueError on a float that is not
\* finite, wherever it sits in the value.
RECURSIVE compliant(_)
compliant(v) ==
    /\ (v.t = "float" => v.s \notin {"inf", "-inf", "nan"})
    /\ \A i \in 1..Len(v.kids) : compliant(v.kids[i][2])

\* json.dumps: a Python value to its JSON text.
RECURSIVE json_dumps(_)
json_dumps(v) ==
    CASE v.t = "None" -> JNull
      [] v.t = "bool" -> JTrue
      [] v.t \in {"int", "float"} -> JNum(v.s)
      [] v.t = "str" -> JStr(v.s)
      [] v.t = "list" ->
            [t |-> "array", s |-> "",
             kids |-> [i \in 1..Len(v.kids) |-> <<"", json_dumps(v.kids[i][2])>>]]
      [] v.t = "dict" ->
            [t |-> "object", s |-> "",
             kids |-> [i \in 1..Len(v.kids) |-> <<v.kids[i][1], json_dumps(v.kids[i][2])>>]]

\* The body parameter "data: dict" (line 47): the body must be there, must
\* parse, and must be an object; anything else is a validation error.
body_is_dict(body) ==
    /\ body.t \notin {"empty", "malformed"}
    /\ json_loads(body).t = "dict"

(* ------------------------------ the clock ----------------------------- *)

\* datetime.now(): the naive local time, the instant c shifted by the
\* host's UTC offset.
datetime_now(c) == [naive |-> c + tz]

\* isoformat() of a naive datetime: the digits, and no offset suffix.
isoformat(dt) == [digits |-> dt.naive, offset |-> "none"]

\* timestamp() of a naive datetime: it is taken as local time.
timestamp(dt) == dt.naive - tz

(* ----------------------------- the handlers --------------------------- *)

\* A choice that never picks the last element.
random_choice_SkipLast(seq) == {seq[i] : i \in 1..(Len(seq) - 1)}

\* random.choice: any element of the sequence.
random_choice(seq) == {seq[i] : i \in 1..Len(seq)}

root == [message |-> "Simple MCP Server is running!"]

\* A timestamp taken once, at process start.
health_Stale(now) == [status |-> "healthy", timestamp |-> isoformat([naive |-> startTime])]

health(now) == [status |-> "healthy", timestamp |-> isoformat(now)]

get_random_fact(fact, now) == [fact |-> fact, timestamp |-> isoformat(now)]

get_current_time(now1, now2) ==
    [current_time |-> isoformat(now1),
     timezone |-> "UTC",
     unix_timestamp |-> timestamp(now2)]

echo_message(data, now) ==
    [echoed |-> data, timestamp |-> isoformat(now), message |-> "Echo successful"]

\* A listing that loses its last tool.
mcp_endpoint_Short(catalog) ==
    [tools |-> SubSeq(catalog, 1, Len(catalog) - 1), server_info |-> SERVER_INFO]

mcp_endpoint(catalog) == [tools |-> catalog, server_info |-> SERVER_INFO]

(* ------------------------------ requests ------------------------------ *)

\* The bodies a client posts: none, text that is no JSON, JSON that is no
\* object, and objects (empty, flat, nested, and one whose number lies
\* beyond the double range).
ObjEmpty == JObj(<<>>)
ObjFlat == JObj(<< <<"a", JNum("1")>>, <<"b", JStr("x")>> >>)
ObjNested == JObj(<< <<"k", JObj(<< <<"n", JNum("0.5")>>, <<"l", JArr(<<JNull, JTrue>>)>> >>)>> >>)
ObjHuge == JObj(<< <<"x", JNum("1e999")>> >>)

ObjectBodies == {ObjEmpty, ObjFlat, ObjNested, ObjHuge}
OtherJsonBodies == {JArr(<<JNum("42")>>), JStr("hi")}
Bodies == {EmptyBody, MalformedBody} \cup OtherJsonBodies \cup ObjectBodies

Paths ==
    { <<>>, <<"health">>, <<"random-fact">>, <<"time">>, <<"echo">>, <<"mcp">>,
      <<"docs">>, <<"health", "">>, <<"nope">> }

\* The requests a client sends: a GET of every path, a POST of the paths
\* that do not take one, and the bodies posted to /echo (any of them) and
\* to /mcp (some of them).
Requests ==
    {[method |-> "GET", path |-> p, body |-> EmptyBody] : p \in Paths}
    \cup {[method |-> "POST", path |-> p, body |-> EmptyBody] :
             p \in {<<"health">>, <<"health", "">>, <<"nope">>}}
    \cup {[method |-> "POST", path |-> <<"echo">>, body |-> b] : b \in Bodies}
    \cup {[method |-> "POST", path |-> <<"mcp">>, body |-> b] :
             b \in {EmptyBody, MalformedBody, ObjFlat}}

\* A request slot that holds no request.
Idle ==
    [phase |-> "idle", method |-> "", path |-> <<>>, body |-> EmptyBody,
     endpoint |-> "none", clockOk |-> TRUE,
     response |-> [status |-> 0, body |-> [detail |-> "none"]]]

\* The bodies of the framework's own responses.
NotFound == [detail |-> "Not Found"]
MethodNotAllowed == [detail |-> "Method Not Allowed"]
Redirect == [detail |-> "Temporary Redirect"]
ValidationError == [detail |-> "Unprocessable Entity"]
InternalServerError == [detail |-> "Internal Server Error"]

ErrorBody(status) ==
    CASE status = 404 -> NotFound
      [] status = 405 -> MethodNotAllowed
      [] status = 307 -> Redirect

\* A decoding failure left to surface as an internal error.
RequestValidationError_Unhandled == [status |-> 500, body |-> InternalServerError]

\* What FastAPI answers when the body fails the "data: dict" parameter.
RequestValidationError == [status |-> 422, body |-> ValidationError]

\* An exception swallowed: the content goes out whatever happened.
Respond_Caught(ok, content) == [status |-> 200, body |-> content]

\* What a request gets when its endpoint returned content, or raised: no
\* handler catches anything, so an exception is the framework's 500.
Respond(ok, content) ==
    IF ok THEN [status |-> 200, body |-> content]
    ELSE [status |-> 500, body |-> InternalServerError]

(* ------------------------------- actions ------------------------------ *)

Init ==
    /\ clock = 0
    /\ tz \in TzOffsets
    /\ startTime = datetime_now(0).naive
    /\ routes = DocRoutes \o AppRoutes
    /\ facts = FACTS
    /\ tools = TOOLS
    /\ reqs = [r \in ReqIds |-> Idle]

\* Time passes.
Tick ==
    /\ clock < MaxClock
    /\ clock' = clock + 1
    /\ UNCHANGED <<tz, startTime, routes, facts, tools, reqs>>

\* A request arrives and the router looks its route up: it is answered on
\* the spot when no endpoint is to run.
Receive(r, q) ==
    /\ reqs[r].phase = "idle"
    /\ LET hit == Router(routes, q.method, q.path)
           req == [Idle EXCEPT !.method = q.method, !.path = q.path, !.body = q.body]
       IN  reqs' = [reqs EXCEPT ![r] =
                IF hit.status = 0
                THEN [req EXCEPT !.phase = "routed", !.endpoint = hit.endpoint]
                ELSE [req EXCEPT !.phase = "responded",
                                 !.response = [status |-> hit.status,
                                               body |-> ErrorBody(hit.status)]]]
    /\ UNCHANGED <<clock, tz, startTime, routes, facts, tools>>

Routed(r, endpoint) ==
    /\ reqs[r].phase = "routed"
    /\ reqs[r].endpoint = endpoint

Answer(r, ok, response) ==
    reqs' = [reqs EXCEPT ![r] = [@ EXCEPT !.phase = "responded", !.clockOk = ok,
                                          !.response = response]]

\* The documentation pages FastAPI serves itself.
ServeDocs(r) ==
    /\ reqs[r].phase = "routed"
    /\ reqs[r].endpoint \in {DocRoutes[i].endpoint : i \in 1..Len(DocRoutes)}
    /\ Answer(r, TRUE, Respond(TRUE, [html |-> reqs[r].endpoint]))
    /\ UNCHANGED <<clock, tz, startTime, routes, facts, tools>>

ServeRoot(r) ==
    /\ Routed(r, "root")
    /\ Answer(r, TRUE, Respond(TRUE, root))
    /\ UNCHANGED <<clock, tz, startTime, routes, facts, tools>>

\* The clock read of a handler can fail (ok = FALSE).
ServeHealth(r) ==
    /\ Routed(r, "health")
    /\ \E ok \in BOOLEAN :
         Answer(r, ok, Respond(ok, health(datetime_now(clock))))
    /\ UNCHANGED <<clock, tz, startTime, routes, facts, tools>>

\* A handler that takes the fact it returns out of the list.
ServeRandomFact_Pop(r) ==
    /\ Routed(r, "get_random_fact")
    /\ \E fact \in random_choice(facts), ok \in BOOLEAN :
         /\ Answer(r, ok, Respond(ok, get_random_fact(fact, datetime_now(clock))))
         /\ facts' = SelectSeq(facts, LAMBDA f : f # fact)
    /\ UNCHANGED <<clock, tz, startTime, routes, tools>>

ServeRandomFact(r) ==
    /\ Routed(r, "get_random_fact")
    /\ \E fact \in random_choice(facts), ok \in BOOLEAN :
         Answer(r, ok, Respond(ok, get_random_fact(fact, datetime_now(clock))))
    /\ UNCHANGED <<clock, tz, startTime, routes, facts, tools>>

\* Two clock reads, and the time gap that passes between them.
ServeTime(r) ==
    /\ Routed(r, "get_current_time")
    /\ \E gap \in 0..MaxReadGap, ok \in BOOLEAN :
         /\ clock + gap <= MaxClock
         /\ clock' = clock + gap
         /\ Answer(r, ok, Respond(ok, get_current_time(datetime_now(clock),
                                                        datetime_now(clock + gap))))
    /\ UNCHANGED <<tz, startTime, routes, facts, tools>>

\* The body is decoded and validated, the handler runs, and the response
\* is encoded: a result that json.dumps refuses is an exception too.
ServeEcho(r) ==
    /\ Routed(r, "echo_message")
    /\ IF ~body_is_dict(reqs[r].body)
       THEN Answer(r, TRUE, RequestValidationError)
       ELSE \E ok \in BOOLEAN :
              LET data == json_loads(reqs[r].body)
                  content == echo_message(data, datetime_now(clock))
              IN  Answer(r, ok,
                         Respond(ok /\ compliant(content.echoed),
                                 [content EXCEPT !.echoed = json_dumps(content.echoed)]))
    /\ UNCHANGED <<clock, tz, startTime, routes, facts, tools>>

\* No body parameter: whatever was posted is not read.
ServeMcp(r) ==
    /\ Routed(r, "mcp_endpoint")
    /\ Answer(r, TRUE, Respond(TRUE, mcp_endpoint(tools)))
    /\ UNCHANGED <<clock, tz, startTime, routes, facts, tools>>

\* The response has gone out and the request is over.
Deliver(r) ==
    /\ reqs[r].phase = "responded"
    /\ reqs' = [reqs EXCEPT ![r] = Idle]
    /\ UNCHANGED <<clock, tz, startTime, routes, facts, tools>>

Next ==
    \/ Tick
    \/ \E r \in ReqIds, q \in Requests : Receive(r, q)
    \/ \E r \in ReqIds : ServeDocs(r)
    \/ \E r \in ReqIds : ServeRoot(r)
    \/ \E r \in ReqIds : ServeHealth(r)
    \/ \E r \in ReqIds : ServeRandomFact(r)
    \/ \E r \in ReqIds : ServeTime(r)
    \/ \E r \in ReqIds : ServeEcho(r)
    \/ \E r \in ReqIds : ServeMcp(r)
    \/ \E r \in ReqIds : Deliver(r)

Spec == Init /\ [][Next]_vars

(* ------------------------------ properties ---------------------------- *)

\* The wall clock of the host, as datetime.now() would read it in this state.
WallNow == clock + tz

Responded(r) == reqs[r].phase = "responded"

\* Request r was for method and path (as the client wrote it) and has its
\* response.
Asked(r, method, path) ==
    /\ Responded(r)
    /\ reqs[r].method = method
    /\ RoutePath(reqs[r].path) = path

Succeeded(r) == Responded(r) /\ reqs[r].response.status = 200

Content(r) == reqs[r].response.body

\* The shared data as the source writes it.
SharedIntact ==
    /\ facts = FACTS
    /\ tools = TOOLS
    /\ routes = DocRoutes \o AppRoutes

\* A step touches at most one request and none of the shared data.
OneRequestStep ==
    /\ facts' = facts /\ tools' = tools /\ routes' = routes
    /\ \A r1, r2 \in ReqIds : r1 # r2 /\ reqs'[r1] # reqs[r1] => reqs'[r2] = reqs[r2]

\* The instant a client reads out of an ISO 8601 string: a string without
\* an offset is read in the zone the response names.
ParseISO(iso, zone) ==
    IF iso.offset = "none" /\ zone = "UTC" THEN iso.digits ELSE iso.digits - tz

Abs(n) == IF n < 0 THEN -n ELSE n

\* C1: every JSON object posted to /echo is accepted and comes back as the
\* `echoed` field, unchanged, beside a `timestamp` and the message
\* "Echo successful" (the clock read aside, which C9 is about).
C1_EchoRoundTrip ==
    \A r \in ReqIds :
        /\ Asked(r, "POST", "/echo")
        /\ reqs[r].body.t = "object"
        /\ reqs[r].clockOk
        => /\ reqs[r].response.status = 200
           /\ DOMAIN Content(r) = {"echoed", "timestamp", "message"}
           /\ Content(r).echoed = reqs[r].body
           /\ Content(r).message = "Echo successful"

\* C2: a body posted to /echo that is no JSON text is answered 4xx with no
\* `echoed` field, and the step that rejects it changes nothing but that
\* request: the shared data and every other request are as they were.
C2_Rejected(r) ==
    /\ Asked(r, "POST", "/echo")
    /\ reqs[r].body.t \in {"empty", "malformed"}

C3_FactFromList ==
    /\ Cardinality({FACTS[i] : i \in 1..Len(FACTS)}) = 5
    /\ \A r \in ReqIds :
        /\ Asked(r, "GET", "/random-fact") /\ Succeeded(r)
             => Content(r).fact \in {FACTS[i] : i \in 1..Len(FACTS)}
        /\ Routed(r, "get_random_fact")
             => \A i \in 1..Len(FACTS) :
                    ENABLED (/\ ServeRandomFact(r)
                             /\ reqs'[r].response.status = 200
                             /\ reqs'[r].response.body.fact = FACTS[i])

C3_Witness ==
    \E r1, r2 \in ReqIds :
        /\ Asked(r1, "GET", "/random-fact") /\ Succeeded(r1)
        /\ Content(r1).fact = FACTS[5]
        /\ Asked(r2, "GET", "/random-fact") /\ Succeeded(r2)
        /\ Content(r2).fact = FACTS[1]

\* C4: in every /time response `timezone` is "UTC", and `unix_timestamp`
\* and `current_time` (read as ISO 8601) are the same instant within one
\* second.
C4_SameInstant ==
    \A r \in ReqIds :
        Asked(r, "GET", "/time") /\ Succeeded(r) =>
            /\ Content(r).timezone = "UTC"
            /\ Abs(Content(r).unix_timestamp
                   - ParseISO(Content(r).current_time, Content(r).timezone)) <= 1

\* C5: every POST to /mcp, whatever its body and whatever else was served,
\* returns the same document: three tools, each with the four fields and
\* none of them empty, and server_info.version "1.0.0".
C5_StaticCatalog ==
    \A r \in ReqIds :
        Asked(r, "POST", "/mcp") =>
            /\ reqs[r].response.status = 200
            /\ DOMAIN Content(r) = {"tools", "server_info"}
            /\ Len(Content(r).tools) = 3
            /\ \A i \in 1..Len(Content(r).tools) :
                 LET tool == Content(r).tools[i]
                 IN  /\ DOMAIN tool = {"name", "description", "url", "method"}
                     /\ tool.name # "" /\ tool.description # ""
                     /\ tool.url # "" /\ tool.method # ""
            /\ Content(r).server_info.version = "1.0.0"
            /\ \A r2 \in ReqIds :
                 Asked(r2, "POST", "/mcp") => reqs[r2].response = reqs[r].response

C5_Witness ==
    \E r1, r2 \in ReqIds :
        /\ Asked(r1, "POST", "/mcp") /\ reqs[r1].body = MalformedBody /\ Succeeded(r1)
        /\ Asked(r2, "POST", "/mcp") /\ reqs[r2].body = ObjFlat /\ Succeeded(r2)

\* C6: a /health response has status "healthy", and its timestamp is a
\* reading of the clock taken in the step that serves the request: not
\* before the reading at process start, not before the reading when the
\* step began (the request had arrived by then), and not after the reading
\* of any state in which the response is there to be seen.
C6_HealthTimestamp ==
    /\ [](\A r \in ReqIds :
            Asked(r, "GET", "/health") /\ Succeeded(r) =>
                /\ Content(r).status = "healthy"
                /\ Content(r).timestamp.offset = "none"
                /\ startTime <= Content(r).timestamp.digits
                /\ Content(r).timestamp.digits <= WallNow)
    /\ [][/\ WallNow <= WallNow'
          /\ \A r \in ReqIds :
               Routed(r, "health") /\ Succeeded(r)' =>
                   /\ WallNow <= reqs'[r].response.body.timestamp.digits
                   /\ reqs'[r].response.body.timestamp.digits <= WallNow']_vars

C6_Witness ==
    \E r \in ReqIds :
        /\ Asked(r, "GET", "/health") /\ Succeeded(r)
        /\ startTime < Content(r).timestamp.digits

\* The handler a method and path are registered for at lines 16-56, if any.
OwnHandler(method, path) ==
    CASE method = "GET" /\ path = "/" -> "root"
      [] method = "GET" /\ path = "/health" -> "health"
      [] method = "GET" /\ path = "/random-fact" -> "get_random_fact"
      [] method = "GET" /\ path = "/time" -> "get_current_time"
      [] method = "POST" /\ path = "/echo" -> "echo_message"
      [] method = "POST" /\ path = "/mcp" -> "mcp_endpoint"
      [] OTHER -> "none"

Handlers ==
    {"root", "health", "get_random_fact", "get_current_time", "echo_message", "mcp_endpoint"}

\* The fields a handler's result has.
ResultKeys(endpoint) ==
    CASE endpoint = "root" -> {"message"}
      [] endpoint = "health" -> {"status", "timestamp"}
      [] endpoint = "get_random_fact" -> {"fact", "timestamp"}
      [] endpoint = "get_current_time" -> {"current_time", "timezone", "unix_timestamp"}
      [] endpoint = "echo_message" -> {"echoed", "timestamp", "message"}
      [] endpoint = "mcp_endpoint" -> {"tools", "server_info"}
      [] OTHER -> {"html"}

InTable(path) == \E i \in 1..Len(routes) : routes[i].path = path

\* C7 as it was stated: each of the six pairs runs its own handler, and
\* every other request is answered 404 with no handler run.
C7_UnmatchedIs404 ==
    \A r \in ReqIds :
        reqs[r].phase # "idle" =>
            LET own == OwnHandler(reqs[r].method, RoutePath(reqs[r].path))
            IN  IF own # "none" THEN reqs[r].endpoint = own
                ELSE /\ reqs[r].endpoint = "none"
                     /\ reqs[r].response.status = 404

\* C7, amended: each of the six pairs runs its own handler and no other,
\* and no other request runs any of the six.  Of the other requests, one
\* for a path the route table has under another method only is answered
\* 405, one for a path the table has only with the trailing slash toggled
\* is answered 307, one the table of line 13 has a documentation route for
\* is served by the framework, and the rest are answered 404.
C7_Routing ==
    \A r \in ReqIds :
        reqs[r].phase # "idle" =>
            LET path == RoutePath(reqs[r].path)
                own == OwnHandler(reqs[r].method, path)
                allowed == \E i \in 1..Len(routes) :
                              routes[i].path = path /\ reqs[r].method \in routes[i].methods
            IN  IF own # "none"
                THEN /\ reqs[r].endpoint = own
                     /\ Succeeded(r) => DOMAIN Content(r) = ResultKeys(own)
                ELSE /\ reqs[r].endpoint \notin Handlers
                     /\ IF allowed
                        THEN reqs[r].endpoint \in {DocRoutes[i].endpoint : i \in 1..Len(DocRoutes)}
                        ELSE /\ Responded(r)
                             /\ reqs[r].endpoint = "none"
                             /\ reqs[r].response.status =
                                    IF InTable(path) THEN 405
                                    ELSE IF path # "/" /\ InTable(RoutePath(ToggleSlash(reqs[r].path)))
                                         THEN 307
                                    ELSE 404

C7_Witness ==
    \E r1, r2 \in ReqIds :
        /\ Asked(r1, "GET", "/nope") /\ reqs[r1].response.status = 404
        /\ Asked(r2, "POST", "/echo") /\ reqs[r2].endpoint = "echo_message"
        /\ Succeeded(r2)

\* C8: whatever requests are served and however they interleave, the fact
\* list, the tool catalog and the route table keep the values of process
\* start, and a step of one request changes no other request.
C8_NoSharedWrites ==
    /\ []SharedIntact
    /\ [][OneRequestStep]_vars

C8_Witness ==
    \E r1, r2 \in ReqIds :
        /\ Asked(r1, "GET", "/random-fact") /\ Succeeded(r1)
        /\ Asked(r2, "POST", "/mcp") /\ Succeeded(r2)
        /\ SharedIntact

Serve(r) ==
    \/ ServeDocs(r) \/ ServeRoot(r) \/ ServeHealth(r) \/ ServeRandomFact(r)
    \/ ServeTime(r) \/ ServeEcho(r) \/ ServeMcp(r)

Failed(r) == Responded(r) /\ ~reqs[r].clockOk

\* C9: a request whose clock read fails is answered 500 and nothing else
\* of it is sent; a response is either a whole result (200) or an error
\* with none of the handler's fields; the failing step changes nothing but
\* that request, the failure stays as it is until it is delivered (no
\* retry), and every request waiting beside a failed one can still be
\* served, with a 200 unless it is an /echo whose body decides otherwise.
C9_FaultIsolated ==
    /\ [](\A r \in ReqIds :
            /\ Failed(r) =>
                 /\ reqs[r].response = [status |-> 500, body |-> InternalServerError]
                 /\ SharedIntact
                 /\ \A r2 \in ReqIds :
                      reqs[r2].phase = "routed" =>
                        /\ ENABLED Serve(r2)
                        /\ reqs[r2].endpoint # "echo_message" =>
                             ENABLED (Serve(r2) /\ reqs'[r2].response.status = 200)
            /\ Responded(r) =>
                 IF reqs[r].response.status = 200
                 THEN DOMAIN Content(r) = ResultKeys(reqs[r].endpoint)
                 ELSE DOMAIN Content(r) = {"detail"})
    /\ [][\A r \in ReqIds :
            /\ Failed(r)' /\ ~Failed(r) =>
                 /\ reqs[r].phase = "routed"
                 /\ facts' = facts /\ tools' = tools /\ routes' = routes
                 /\ \A r2 \in ReqIds \ {r} : reqs'[r2] = reqs[r2]
            /\ Failed(r) => reqs'[r] \in {reqs[r], Idle}]_vars

C9_Witness ==
    \E r1, r2 \in ReqIds :
        /\ Asked(r1, "GET", "/health") /\ Failed(r1)
        /\ reqs[r1].response.status = 500
        /\ Asked(r2, "GET", "/health") /\ Succeeded(r2)

\* C10: each of the three tool descriptors names a route of this server,
\* GET /random-fact, GET /time or GET /health; no two have the same url;
\* and none is /, /echo or /mcp.  The same holds of the tools in every
\* /mcp response.
CatalogSound(catalog) ==
    /\ Len(catalog) = 3
    /\ \A i \in 1..Len(catalog) :
         /\ \E j \in 1..Len(routes) :
              /\ routes[j].path = catalog[i].url
              /\ catalog[i].method \in routes[j].methods
              /\ routes[j].endpoint \in {"get_random_fact", "get_current_time", "health"}
         /\ catalog[i].url \notin {"/", "/echo", "/mcp"}
         /\ \A k \in 1..Len(catalog) : k # i => catalog[k].url # catalog[i].url
    /\ {<<catalog[i].method, catalog[i].url>> : i \in 1..Len(catalog)}
         = {<<"GET", "/random-fact">>, <<"GET", "/time">>, <<"GET", "/health">>}

C10_CatalogRoutes ==
    /\ CatalogSound(tools)
    /\ \A r \in ReqIds :
         Asked(r, "POST", "/mcp") /\ Succeeded(r) => CatalogSound(Content(r).tools)

C10_Witness ==
    \E r \in ReqIds :
        /\ Asked(r, "POST", "/mcp") /\ Succeeded(r)
        /\ Len(Content(r).tools) = 3

====
